---- MODULE Spec2Model ----
(***************************************************************************)
(* Polly-API client (src/client.py): four synchronous functions that       *)
(* validate their arguments, issue one HTTP request through a transport    *)
(* and map the response to a returned value or a raised exception.         *)
(*                                                                         *)
(* The state is the record of the latest invocation: the call and its      *)
(* arguments, what the transport did, the requests the invocation issued,  *)
(* whether it read the response, and how it ended.                         *)
(***************************************************************************)
EXTENDS Integers, Sequences, FiniteSets, TLC

\* Largest poll / option identifier tried; identifiers range over -1..MaxId.
MaxId == 2
\* Largest skip / limit tried; both range over -1..MaxPage.
MaxPage == 2

VARIABLES call, transport, requests, inspected, outcome

vars == <<call, transport, requests, inspected, outcome>>

(***************************************************************************)
(* Python values: None, str, int, dict, list.                              *)
(***************************************************************************)
None == [t |-> "NoneType"]

Str(s) == [t |-> "str", s |-> s]

Num(n) == [t |-> "int", n |-> n]

Dict(f) == [t |-> "dict", fields |-> f]

List(q) == [t |-> "list", items |-> q]

EmptyFields == [k \in {} |-> None]

\* bool(v) as `or` / `if` apply it
truthy(v) ==
    CASE v.t = "NoneType" -> FALSE
      [] v.t = "str" -> v.s # ""
      [] v.t = "int" -> v.n # 0
      [] v.t = "dict" -> DOMAIN v.fields # {}
      [] v.t = "list" -> Len(v.items) > 0

\* a or b
Or(a, b) == IF truthy(a) THEN a ELSE b

\* d.get(k) of a dict
dict_get(d, k) == IF k \in DOMAIN d.fields THEN d.fields[k] ELSE None

\* f"{v}" for the values that reach a message
format(v) == IF v.t = "str" THEN v.s ELSE "None"

(***************************************************************************)
(* The transport: response bodies, status codes and failures it can give.  *)
(***************************************************************************)
Bodies ==
    { "",
      "Internal Server Error",
      "{}",
      "{\"detail\":\"poll missing\"}",
      "{\"message\":\"gone\"}",
      "{\"detail\":\"\",\"message\":\"gone\"}",
      "{\"detail\":\"Username already registered\",\"message\":\"gone\"}",
      "{\"id\":1,\"username\":\"alice\"}",
      "[]",
      "[{\"id\":1,\"title\":\"Q\"}]",
      "null",
      "\"ok\"" }

\* Whether response.json() parses the text (otherwise it raises ValueError)
is_json(text) == text \notin {"", "Internal Server Error"}

\* response.json() of a text that parses
json(text) ==
    CASE text = "{}" -> Dict(EmptyFields)
      [] text = "{\"detail\":\"poll missing\"}" ->
            Dict([detail |-> Str("poll missing")])
      [] text = "{\"message\":\"gone\"}" ->
            Dict([message |-> Str("gone")])
      [] text = "{\"detail\":\"\",\"message\":\"gone\"}" ->
            Dict([detail |-> Str(""), message |-> Str("gone")])
      [] text = "{\"detail\":\"Username already registered\",\"message\":\"gone\"}" ->
            Dict([detail |-> Str("Username already registered"),
                  message |-> Str("gone")])
      [] text = "{\"id\":1,\"username\":\"alice\"}" ->
            Dict([id |-> Num(1), username |-> Str("alice")])
      [] text = "[]" -> List(<<>>)
      [] text = "[{\"id\":1,\"title\":\"Q\"}]" ->
            List(<<Dict([id |-> Num(1), title |-> Str("Q")])>>)
      [] text = "null" -> None
      [] text = "\"ok\"" -> Str("ok")

StatusCodes == {100, 200, 201, 204, 304, 400, 401, 404, 422, 500}

\* requests.RequestException subclasses the transport raises by itself
TransportErrors == {"ConnectionError", "Timeout"}

NoResponse == [status_code |-> 0, text |-> ""]

Response(status, text) == [status_code |-> status, text |-> text]

TransportOutcomes ==
    {[error |-> e, response |-> NoResponse] : e \in TransportErrors}
    \cup {[error |-> "", response |-> Response(s, b)] :
            s \in StatusCodes, b \in Bodies}

(***************************************************************************)
(* How an invocation ends.                                                 *)
(***************************************************************************)
Return(v) ==
    [kind |-> "return", value |-> v, exc |-> "", msg |-> <<>>,
     response |-> NoResponse]

Raise(e, m, r) ==
    [kind |-> "raise", value |-> None, exc |-> e, msg |-> m, response |-> r]

\* {"status_code": response.status_code, "content": response.text}
status_content(response) ==
    Dict([status_code |-> Num(response.status_code),
          content |-> Str(response.text)])

\* An invocation that ended before the transport was called
Local(o) == [requests |-> <<>>, inspected |-> FALSE, outcome |-> o]

\* Variant: the transport's error is wrapped in a new exception
Failed_wrapped(req, t) ==
    [requests |-> <<req>>, inspected |-> FALSE,
     outcome |-> Raise("RuntimeError", <<t.error>>, NoResponse)]

\* An invocation whose transport call raised: the error is re-raised
Failed(req, t) ==
    [requests |-> <<req>>, inspected |-> FALSE,
     outcome |-> Raise(t.error, <<>>, NoResponse)]

\* An invocation that got a response and read its status code
Handled(req, o) == [requests |-> <<req>>, inspected |-> TRUE, outcome |-> o]

\* The arguments of one invocation; fields an operation does not take are
\* "" or 0. `session` tells whether the caller passed a session.
NoArgs ==
    [username |-> "", password |-> "", skip |-> 0, limit |-> 0,
     poll_id |-> 0, option_id |-> 0, token |-> "", session |-> FALSE]

\* One call of http.post / http.get, http being `session or requests`. The
\* url is the part after the base URL; json, params and headers are None
\* when the call does not pass them.
Request(verb, url, payload, query, hdrs, session) ==
    [method |-> verb, url |-> url, json |-> payload, params |-> query,
     headers |-> hdrs, http |-> IF session THEN "session" ELSE "requests"]

\* response.raise_for_status(): raises HTTPError for 4xx and 5xx only
raises_for_status(response) ==
    response.status_code >= 400 /\ response.status_code < 600

\* raise_for_status() followed by the defensive return
raise_for_status_or_return(response) ==
    IF raises_for_status(response)
    THEN Raise("HTTPError", <<>>, response)
    ELSE IF is_json(response.text)
         THEN Return(json(response.text))
         ELSE Return(status_content(response))

\* The transport before it is called
NotCalled == [error |-> "", response |-> NoResponse]

(***************************************************************************)
(* register_user                                                           *)
(***************************************************************************)
\* HTTP 400: the message from detail, message or the text
register_user_400(response) ==
    IF ~is_json(response.text)
    THEN Raise("ValueError",
               <<"Registration failed (400): ", response.text>>, NoResponse)
    ELSE LET error_json == json(response.text)
         IN  IF error_json.t # "dict"
             THEN Raise("AttributeError", <<>>, NoResponse)
             ELSE LET error_message ==
                          Or(Or(dict_get(error_json, "detail"),
                                dict_get(error_json, "message")),
                             Str(response.text))
                  IN  Raise("ValueError",
                            <<"Registration failed (400): ",
                              format(error_message)>>, NoResponse)

\* Variant: a 200 body is returned wrapped with its status code
register_user_response_wrapped(response) ==
    IF response.status_code = 200
    THEN IF is_json(response.text)
         THEN Return(Dict([status_code |-> Num(response.status_code),
                           content |-> json(response.text)]))
         ELSE Raise("HTTPError",
                    <<"Expected JSON response, but failed to parse.">>,
                    response)
    ELSE IF response.status_code = 400
         THEN register_user_400(response)
         ELSE raise_for_status_or_return(response)

register_user_response(response) ==
    IF response.status_code = 200
    THEN IF is_json(response.text)
         THEN Return(json(response.text))
         ELSE Raise("HTTPError",
                    <<"Expected JSON response, but failed to parse.">>,
                    response)
    ELSE IF response.status_code = 400
         THEN register_user_400(response)
         ELSE raise_for_status_or_return(response)

register_user(a, t) ==
    IF a.username = ""
    THEN Local(Raise("ValueError",
                     <<"username must be a non-empty string">>, NoResponse))
    ELSE IF a.password = ""
    THEN Local(Raise("ValueError",
                     <<"password must be a non-empty string">>, NoResponse))
    ELSE LET req == Request("POST", <<"/register">>,
                            [username |-> a.username,
                             password |-> a.password],
                            None, None, a.session)
         IN  IF t.error # ""
             THEN Failed(req, t)
             ELSE Handled(req, register_user_response(t.response))

(***************************************************************************)
(* get_polls                                                               *)
(***************************************************************************)
\* Variant: the JSONDecodeError of a 200 body is not caught
get_polls_response_uncaught(response) ==
    IF response.status_code = 200
    THEN IF ~is_json(response.text)
         THEN Raise("ValueError", <<>>, NoResponse)
         ELSE LET data == json(response.text)
              IN  IF data.t # "list"
                  THEN Raise("ValueError",
                             <<"Expected response to be a JSON array of polls">>,
                             NoResponse)
                  ELSE Return(data)
    ELSE raise_for_status_or_return(response)

get_polls_response(response) ==
    IF response.status_code = 200
    THEN IF ~is_json(response.text)
         THEN Raise("HTTPError",
                    <<"Expected JSON array, but failed to parse.">>, response)
         ELSE LET data == json(response.text)
              IN  IF data.t # "list"
                  THEN Raise("ValueError",
                             <<"Expected response to be a JSON array of polls">>,
                             NoResponse)
                  ELSE Return(data)
    ELSE raise_for_status_or_return(response)

get_polls(a, t) ==
    IF a.skip < 0
    THEN Local(Raise("ValueError",
                     <<"skip must be a non-negative integer">>, NoResponse))
    ELSE IF a.limit <= 0
    THEN Local(Raise("ValueError",
                     <<"limit must be a positive integer">>, NoResponse))
    ELSE LET req == Request("GET", <<"/polls">>, None,
                            [skip |-> a.skip, limit |-> a.limit],
                            None, a.session)
         IN  IF t.error # ""
             THEN Failed(req, t)
             ELSE Handled(req, get_polls_response(t.response))

(***************************************************************************)
(* vote_on_poll                                                            *)
(***************************************************************************)
\* Whether err_json.get raises AttributeError: the body parses to a value
\* that is not a dict (only ValueError is caught around it)
get_raises(response) ==
    is_json(response.text) /\ json(response.text).t # "dict"

\* detail after the try block, for a body whose .get does not raise:
\* err_json.get("detail") or err_json.get("message"), and None when the
\* body does not parse
not_found_detail(response) ==
    IF ~is_json(response.text)
    THEN None
    ELSE LET err_json == json(response.text)
         IN  Or(dict_get(err_json, "detail"), dict_get(err_json, "message"))

vote_on_poll_404(response) ==
    IF get_raises(response)
    THEN Raise("AttributeError", <<>>, NoResponse)
    ELSE LET detail == not_found_detail(response)
         IN  IF truthy(detail)
             THEN Raise("FileNotFoundError",
                        <<"Not found: ", format(detail)>>, NoResponse)
             ELSE Raise("FileNotFoundError",
                        <<"Not found: poll or option">>, NoResponse)

\* Variant: 401 is reported with the exception of a bad argument
vote_on_poll_response_401_value_error(response) ==
    IF response.status_code = 200
    THEN IF is_json(response.text)
         THEN Return(json(response.text))
         ELSE Raise("HTTPError",
                    <<"Expected JSON VoteOut, but failed to parse.">>,
                    response)
    ELSE IF response.status_code = 401
    THEN Raise("ValueError",
               <<"Unauthorized: missing or invalid token">>, NoResponse)
    ELSE IF response.status_code = 404
    THEN vote_on_poll_404(response)
    ELSE raise_for_status_or_return(response)

vote_on_poll_response(response) ==
    IF response.status_code = 200
    THEN IF is_json(response.text)
         THEN Return(json(response.text))
         ELSE Raise("HTTPError",
                    <<"Expected JSON VoteOut, but failed to parse.">>,
                    response)
    ELSE IF response.status_code = 401
    THEN Raise("PermissionError",
               <<"Unauthorized: missing or invalid token">>, NoResponse)
    ELSE IF response.status_code = 404
    THEN vote_on_poll_404(response)
    ELSE raise_for_status_or_return(response)

\* Variant: the token is checked after the request was sent
vote_on_poll_late_token_check(a, t) ==
    IF a.poll_id <= 0
    THEN Local(Raise("ValueError",
                     <<"poll_id must be a positive integer">>, NoResponse))
    ELSE IF a.option_id <= 0
    THEN Local(Raise("ValueError",
                     <<"option_id must be a positive integer">>, NoResponse))
    ELSE LET req == Request("POST", <<"/polls/", a.poll_id, "/vote">>,
                            [option_id |-> a.option_id], None,
                            [Authorization |-> <<"Bearer ", a.token>>],
                            a.session)
         IN  IF t.error # ""
             THEN Failed(req, t)
             ELSE IF a.token = ""
             THEN Handled(req, Raise("ValueError",
                                     <<"token must be a non-empty string">>,
                                     NoResponse))
             ELSE Handled(req, vote_on_poll_response(t.response))

vote_on_poll(a, t) ==
    IF a.poll_id <= 0
    THEN Local(Raise("ValueError",
                     <<"poll_id must be a positive integer">>, NoResponse))
    ELSE IF a.option_id <= 0
    THEN Local(Raise("ValueError",
                     <<"option_id must be a positive integer">>, NoResponse))
    ELSE IF a.token = ""
    THEN Local(Raise("ValueError",
                     <<"token must be a non-empty string">>, NoResponse))
    ELSE LET req == Request("POST", <<"/polls/", a.poll_id, "/vote">>,
                            [option_id |-> a.option_id], None,
                            [Authorization |-> <<"Bearer ", a.token>>],
                            a.session)
         IN  IF t.error # ""
             THEN Failed(req, t)
             ELSE Handled(req, vote_on_poll_response(t.response))

(***************************************************************************)
(* get_poll_results                                                        *)
(***************************************************************************)
get_poll_results_404(response) ==
    IF get_raises(response)
    THEN Raise("AttributeError", <<>>, NoResponse)
    ELSE LET detail == not_found_detail(response)
         IN  IF truthy(detail)
             THEN Raise("FileNotFoundError",
                        <<"Poll not found: ", format(detail)>>, NoResponse)
             ELSE Raise("FileNotFoundError", <<"Poll not found">>, NoResponse)

get_poll_results_response(response) ==
    IF response.status_code = 200
    THEN IF ~is_json(response.text)
         THEN Raise("HTTPError",
                    <<"Expected JSON PollResults, but failed to parse.">>,
                    response)
         ELSE LET data == json(response.text)
              IN  IF data.t # "dict"
                  THEN Raise("ValueError",
                             <<"Expected response to be a JSON object for poll results">>,
                             NoResponse)
                  ELSE Return(data)
    ELSE IF response.status_code = 404
    THEN get_poll_results_404(response)
    ELSE raise_for_status_or_return(response)

\* Variant: a failed transport call is tried once more
get_poll_results_retry(a, t) ==
    IF a.poll_id <= 0
    THEN Local(Raise("ValueError",
                     <<"poll_id must be a positive integer">>, NoResponse))
    ELSE LET req == Request("GET", <<"/polls/", a.poll_id, "/results">>,
                            None, None, None, a.session)
         IN  IF t.error # ""
             THEN [requests |-> <<req, req>>, inspected |-> FALSE,
                   outcome |-> Raise(t.error, <<>>, NoResponse)]
             ELSE Handled(req, get_poll_results_response(t.response))

get_poll_results(a, t) ==
    IF a.poll_id <= 0
    THEN Local(Raise("ValueError",
                     <<"poll_id must be a positive integer">>, NoResponse))
    ELSE LET req == Request("GET", <<"/polls/", a.poll_id, "/results">>,
                            None, None, None, a.session)
         IN  IF t.error # ""
             THEN Failed(req, t)
             ELSE Handled(req, get_poll_results_response(t.response))

(***************************************************************************)
(* The state machine: each action is one invocation by a caller, with the  *)
(* arguments and the transport's behaviour chosen freely.                  *)
(***************************************************************************)
Usernames == {"", "alice"}

Passwords == {"", "secret"}

Tokens == {"", "tok"}

Ids == -1 .. MaxId

Pages == -1 .. MaxPage

NoCall == [op |-> "", args |-> NoArgs]

Init ==
    /\ call = NoCall
    /\ transport = NotCalled
    /\ requests = <<>>
    /\ inspected = FALSE
    /\ outcome = Return(None)

\* The state after invocation `op(a)` ended as r, the transport doing t
Invoked(op, a, t, r) ==
    /\ call' = [op |-> op, args |-> a]
    /\ transport' = IF r.requests = <<>> THEN NotCalled ELSE t
    /\ requests' = r.requests
    /\ inspected' = r.inspected
    /\ outcome' = r.outcome

\* The functions are synchronous: a caller starts one when it is not
\* inside another (call = NoCall).
RegisterUser ==
    /\ call = NoCall
    /\ \E u \in Usernames, p \in Passwords, s \in BOOLEAN,
          t \in TransportOutcomes :
           LET a == [NoArgs EXCEPT !.username = u, !.password = p,
                                   !.session = s]
           IN  Invoked("register_user", a, t, register_user(a, t))

GetPolls ==
    /\ call = NoCall
    /\ \E skip \in Pages, limit \in Pages, s \in BOOLEAN,
          t \in TransportOutcomes :
           LET a == [NoArgs EXCEPT !.skip = skip, !.limit = limit,
                                   !.session = s]
           IN  Invoked("get_polls", a, t, get_polls(a, t))

VoteOnPoll ==
    /\ call = NoCall
    /\ \E poll_id \in Ids, option_id \in Ids, token \in Tokens,
          s \in BOOLEAN, t \in TransportOutcomes :
           LET a == [NoArgs EXCEPT !.poll_id = poll_id,
                                   !.option_id = option_id,
                                   !.token = token, !.session = s]
           IN  Invoked("vote_on_poll", a, t, vote_on_poll(a, t))

GetPollResults ==
    /\ call = NoCall
    /\ \E poll_id \in Ids, s \in BOOLEAN, t \in TransportOutcomes :
           LET a == [NoArgs EXCEPT !.poll_id = poll_id, !.session = s]
           IN  Invoked("get_poll_results", a, t, get_poll_results(a, t))

\* The caller takes the returned value or the exception; nothing of the
\* invocation is kept (the module has no state of its own).
Complete ==
    /\ call # NoCall
    /\ call' = NoCall
    /\ transport' = NotCalled
    /\ requests' = <<>>
    /\ inspected' = FALSE
    /\ outcome' = Return(None)

Next ==
    \/ Complete
    \/ RegisterUser
    \/ GetPolls
    \/ VoteOnPoll
    \/ GetPollResults

Spec == Init /\ [][Next]_vars

(***************************************************************************)
(* Vocabulary of the properties.                                           *)
(***************************************************************************)
Ops == {"register_user", "get_polls", "vote_on_poll", "get_poll_results"}

\* A local precondition of the call is violated
ArgsInvalid ==
    \/ /\ call.op = "register_user"
       /\ (call.args.username = "" \/ call.args.password = "")
    \/ /\ call.op = "get_polls"
       /\ (call.args.skip < 0 \/ call.args.limit <= 0)
    \/ /\ call.op = "vote_on_poll"
       /\ (\/ call.args.poll_id <= 0
           \/ call.args.option_id <= 0
           \/ call.args.token = "")
    \/ /\ call.op = "get_poll_results"
       /\ call.args.poll_id <= 0

\* The transport gave a response (it was called and did not fail)
Responded == call.op \in Ops /\ requests # <<>> /\ transport.error = ""

Status == transport.response.status_code

Text == transport.response.text

\* The status codes an operation maps to an error kind of its own
MappedCodes(op) ==
    CASE op = "register_user" -> {400}
      [] op = "get_polls" -> {}
      [] op = "vote_on_poll" -> {401, 404}
      [] op = "get_poll_results" -> {404}

Contains(m, x) == \E i \in DOMAIN m : m[i] = x

\* Field k of a body that is a JSON object holding a non-empty k, else ""
FieldOf(text, k) ==
    IF is_json(text) /\ json(text).t = "dict"
    THEN IF k \in DOMAIN json(text).fields /\ json(text).fields[k].t = "str"
         THEN json(text).fields[k].s
         ELSE ""
    ELSE ""

\* detail if present and non-empty, otherwise message, otherwise ""
DetailOrMessage(text) ==
    IF FieldOf(text, "detail") # ""
    THEN FieldOf(text, "detail")
    ELSE FieldOf(text, "message")

\* C1: when a local precondition of any of the four operations is violated,
\* the invocation raises ValueError (the kind of a bad argument) and the
\* transport is not called.
C1_InvalidArgumentsFailLocally ==
    ArgsInvalid =>
        /\ outcome.kind = "raise"
        /\ outcome.exc = "ValueError"
        /\ requests = <<>>
        /\ transport = NotCalled
        /\ ~inspected

\* vote_on_poll with valid identifiers and an empty token
C1_Witness ==
    /\ call.op = "vote_on_poll"
    /\ call.args.poll_id > 0
    /\ call.args.option_id > 0
    /\ call.args.token = ""
    /\ outcome.exc = "ValueError"
    /\ requests = <<>>

\* C2: a response whose status is outside 200..299 and is not one of the
\* operation's mapped codes makes the operation raise HTTPError carrying
\* the status code; no value is returned for it.
C2_UnmappedNon2xxRaisesHTTPError ==
    (/\ Responded
     /\ Status \notin 200 .. 299
     /\ Status \notin MappedCodes(call.op)) =>
        /\ outcome.kind = "raise"
        /\ outcome.exc = "HTTPError"
        /\ outcome.response.status_code = Status

\* C3: every HTTP 400 response to register_user, whatever its body, raises
\* ValueError whose message contains detail if present and non-empty,
\* otherwise message, otherwise the raw response text.
C3_Register400Message ==
    (Responded /\ call.op = "register_user" /\ Status = 400) =>
        /\ outcome.kind = "raise"
        /\ outcome.exc = "ValueError"
        /\ Contains(outcome.msg,
                    IF DetailOrMessage(Text) # ""
                    THEN DetailOrMessage(Text)
                    ELSE Text)

\* C4: every HTTP 404 response to vote_on_poll or get_poll_results, whatever
\* its body, raises FileNotFoundError whose message contains detail or
\* message when one is present and is the generic message otherwise.
C4_NotFoundWhateverBody ==
    (/\ Responded
     /\ call.op \in {"vote_on_poll", "get_poll_results"}
     /\ Status = 404) =>
        /\ outcome.kind = "raise"
        /\ outcome.exc = "FileNotFoundError"
        /\ IF DetailOrMessage(Text) # ""
           THEN Contains(outcome.msg, DetailOrMessage(Text))
           ELSE outcome.msg \in {<<"Not found: poll or option">>,
                                 <<"Poll not found">>}

\* The 200 body does not parse
Unparseable200 ==
    /\ Responded
    /\ call.op \in {"get_polls", "get_poll_results"}
    /\ Status = 200
    /\ ~is_json(Text)

\* The 200 body parses to a value of the wrong top-level shape
WrongShape200 ==
    /\ Responded
    /\ Status = 200
    /\ is_json(Text)
    /\ \/ call.op = "get_polls" /\ json(Text).t # "list"
       \/ call.op = "get_poll_results" /\ json(Text).t # "dict"

\* The exception kind of `op` for the 200 body b
KindOn200(op, b) ==
    IF op = "get_polls"
    THEN get_polls_response(Response(200, b)).exc
    ELSE get_poll_results_response(Response(200, b)).exc

\* C5 (as claimed): on HTTP 200 an unparseable body and a wrongly shaped
\* body make get_polls / get_poll_results raise one and the same kind, and
\* that kind is neither the HTTPError of an error status nor the ValueError
\* of a bad argument.
C5_OneProtocolErrorKind ==
    (Unparseable200 \/ WrongShape200) =>
        /\ outcome.kind = "raise"
        /\ outcome.exc \notin {"HTTPError", "ValueError"}
        /\ \A b \in Bodies : KindOn200(call.op, b) \in {"", outcome.exc}

\* C5 (amended): on HTTP 200 both causes make get_polls / get_poll_results
\* raise and return nothing, but with two kinds: an unparseable body raises
\* HTTPError carrying the response, a wrongly shaped body raises ValueError.
C5_ParseFailureHTTPErrorShapeValueError ==
    /\ Unparseable200 =>
          /\ outcome.kind = "raise"
          /\ outcome.exc = "HTTPError"
          /\ outcome.response = transport.response
    /\ WrongShape200 =>
          /\ outcome.kind = "raise"
          /\ outcome.exc = "ValueError"

\* get_polls got 200 with a body that is not JSON
C5_Witness ==
    /\ Unparseable200
    /\ call.op = "get_polls"
    /\ Text = "Internal Server Error"
    /\ outcome.exc = "HTTPError"

\* C6 (as claimed): ValueError, the kind of a local precondition violation,
\* is raised only by invocations that issued no network call.
C6_ValueErrorOnlyBeforeNetwork ==
    (outcome.kind = "raise" /\ outcome.exc = "ValueError") => requests = <<>>

\* register_user got 400 with a body that lets the message be built
Register400Rejected ==
    /\ Responded
    /\ call.op = "register_user"
    /\ Status = 400
    /\ (is_json(Text) => json(Text).t = "dict")

\* C6 (amended): ValueError is raised without a network call for a
\* precondition violation, and after a response in exactly three cases:
\* register_user on HTTP 400 (body not JSON, or a JSON object), get_polls on
\* a 200 body that is not an array, get_poll_results on a 200 body that is
\* not an object. No other response raises it; vote_on_poll never does.
C6_ValueErrorAfterResponseExactly ==
    (outcome.kind = "raise" /\ outcome.exc = "ValueError" /\ requests # <<>>)
        <=> (Register400Rejected \/ WrongShape200)

\* register_user raised ValueError for a 400 response
C6_Witness ==
    /\ Register400Rejected
    /\ outcome.exc = "ValueError"
    /\ Len(requests) = 1
    /\ inspected

\* A 200 response whose body parses and has the shape the operation wants
Success200 ==
    /\ Responded
    /\ Status = 200
    /\ is_json(Text)
    /\ call.op = "get_polls" => json(Text).t = "list"
    /\ call.op = "get_poll_results" => json(Text).t = "dict"

\* C7: with valid arguments and a 200 response whose body parses (to an
\* array for get_polls, to an object for get_poll_results), the operation
\* returns the parsed body unchanged.
C7_SuccessBodyReturnedUnchanged ==
    Success200 =>
        /\ outcome.kind = "return"
        /\ outcome.value = json(Text)

\* register_user returned the user object of the response
C7_Witness ==
    /\ Success200
    /\ call.op = "register_user"
    /\ Text = "{\"id\":1,\"username\":\"alice\"}"
    /\ outcome.value = Dict([id |-> Num(1), username |-> Str("alice")])

\* C8: an invocation calls the transport at most once, and exactly once
\* when its arguments are valid, whatever the transport answers (error
\* status, unparseable body or transport failure).
C8_AtMostOneTransportCall ==
    /\ Len(requests) <= 1
    /\ (call.op \in Ops /\ ~ArgsInvalid) => Len(requests) = 1

\* get_poll_results ended after a transport failure, having called once
C8_Witness ==
    /\ call.op = "get_poll_results"
    /\ transport.error = "Timeout"
    /\ Len(requests) = 1

\* C9: when the transport call fails, the invocation raises that same
\* error, returns no value and reads no response; and every invocation
\* ends either with a returned value or with a raised error, never both.
C9_TransportErrorSurfacesUnchanged ==
    /\ transport.error # "" =>
          /\ outcome.kind = "raise"
          /\ outcome.exc = transport.error
          /\ outcome.value = None
          /\ outcome.response = NoResponse
          /\ ~inspected
    /\ call.op \in Ops =>
          /\ outcome.kind \in {"return", "raise"}
          /\ outcome.kind = "raise" <=> outcome.exc # ""
          /\ outcome.kind = "raise" => outcome.value = None

\* vote_on_poll ended with the transport's ConnectionError
C9_Witness ==
    /\ call.op = "vote_on_poll"
    /\ transport.error = "ConnectionError"
    /\ outcome.exc = "ConnectionError"
    /\ ~inspected

\* C10: whatever the status and body, a value get_polls returns is a JSON
\* array and a value get_poll_results returns is a JSON object.
C10_ReturnedShape ==
    /\ (call.op = "get_polls" /\ outcome.kind = "return") =>
          outcome.value.t = "list"
    /\ (call.op = "get_poll_results" /\ outcome.kind = "return") =>
          outcome.value.t = "dict"

====
